---- MODULE Spec2Model ----
(***************************************************************************)
(* WRR Economy (src/app.py): a Flask application over one SQLite file.     *)
(*                                                                         *)
(* The model is the database (tables users, balances, investments, logs,   *)
(* prices), the in-process price dictionary, the calendar day, and one     *)
(* record of local variables per request thread.  Every helper of app.py   *)
(* opens its own connection, so a request is a sequence of SQL statements  *)
(* and transactions with other requests running in between; one model step *)
(* is one statement (or one commit) of one thread.                         *)
(*                                                                         *)
(* SQLite: a SELECT outside a transaction reads the committed database     *)
(* (db).  The sqlite3 module opens a transaction before the first          *)
(* INSERT/UPDATE/DELETE of a connection; the writer then holds the         *)
(* database's single write lock (owner) and works on its own copy (wdb)    *)
(* until commit, which installs the copy.  A second writer waits.  Closing *)
(* a connection without commit, or a crash of the process, discards wdb.   *)
(*                                                                         *)
(* Amounts: money is counted in hundredths of a currency unit, prices and  *)
(* rates in hundredths of a EUR, a/b of the code is integer division.      *)
(* The code's tolerances 1e-8 and 1e-9 are below this resolution: on       *)
(* multiples of 0.01, new < -1e-8 is new < 0.                              *)
(***************************************************************************)
EXTENDS Integers, Sequences, FiniteSets, TLC

VARIABLES
    db,            \* the committed database: the tables of init_db
    wdb,           \* the database as the open write transaction has it
    owner,         \* the thread whose connection holds the write lock
    ASSET_PRICES,  \* the module's price dictionary
    today,         \* date.today()
    loc,           \* the local variables of each request thread
    nreq,          \* requests started so far
    crashed,       \* history: where the open transaction stood at the last crash
    ledger,        \* history: each balance row as the committed changes add up
    cashouts       \* history: committed cashouts per <<user, date>>

vars == <<db, wdb, owner, ASSET_PRICES, today, loc, nreq, crashed, ledger, cashouts>>

hist == <<crashed, ledger, cashouts>>

(* ------------------------------ bounds --------------------------------- *)
\* requests started in one run
MaxReqs == 2
\* requests started in one run of the trading requests alone
MaxTrades == 3

Threads == {"t1", "t2"}
\* the calendar days of a run
Days == {1, 2}
NoThread == "none"

(* --------------------------- program constants ------------------------- *)
Currencies == {"WRR", "LC", "KP"}
Assets == {"WRR", "WRRC", "LBC", "KSP"}

\* EUR (hundredths) per currency unit
CURRENCY_RATES_EUR == [c \in Currencies |->
    CASE c = "WRR" -> 5023 [] c = "LC" -> 2054 [] c = "KP" -> 501]

\* initial asset prices in EUR (hundredths)
InitialAssetPrices == [a \in Assets |->
    CASE a = "WRR" -> 5023 [] a = "WRRC" -> 10000 [] a = "LBC" -> 7500 [] a = "KSP" -> 4000]

\* the order in which small_tick walks the dictionary
AssetOrder == <<"WRR", "WRRC", "LBC", "KSP">>

\* starting balances of a new account (hundredths)
StartingBalances == [c \in Currencies |->
    CASE c = "WRR" -> 1000 [] c = "LC" -> 2500 [] c = "KP" -> 5000]

\* tolerance of change_balance (1e-8) in hundredths
Eps == 0
\* tolerance of the funds pre-check of invest and gamble (1e-9) in hundredths
PreCheckEps == 0
\* hundredths per unit
Scale == 100
\* floor of a price in small_tick (0.01)
MinPrice == 1
\* last_cashout IS NULL
NoDate == 0

(* ------------------------------ inputs --------------------------------- *)
\* the "username" form field of /register: a new name, taken once it is used
Usernames == {"carol"}
\* the user_id of a direct change_balance (alice, and an id that no users row
\* has), its currency and its deltas (hundredths): a debit of 1000.0 and a
\* credit of 3.0
AdjustUsers == {1, 9}
AdjustCurrencies == {"WRR"}
DeltaSet == {-100000, 300}
\* the "shares" form field of /invest
ShareSet == {-6, 2}
\* the "asset" and "currency" form fields of /invest
InvestAssets == {"WRRC"}
PayCurrencies == {"LC"}
\* the users of /gamble, its "currency" and "units" (hundredths) form fields
GambleUsers == {1}
GambleCurrencies == {"WRR"}
\* a stake of 10.0 and a stake of -5.0
UnitSet == {-500, 1000}
\* random.uniform(-0.02, 0.02) of small_tick, in percent
PctSet == {2}

(* --------------------------- SQL, as functions ------------------------- *)
Max(S) == CHOOSE x \in S : \A y \in S : y <= x

\* rowid of an INSERT into a table with INTEGER PRIMARY KEY
NextRowId(table) == IF DOMAIN table = {} THEN 1 ELSE Max(DOMAIN table) + 1

\* f with key k set to v, the key added when it is absent (INSERT OR REPLACE)
Upsert(f, k, v) == [x \in DOMAIN f \cup {k} |-> IF x = k THEN v ELSE f[x]]

\* f without the keys in K
Without(f, K) == [x \in DOMAIN f \ K |-> f[x]]

\* INSERT INTO logs
LogInsert(d, message) == [d EXCEPT !.logs = Append(@, message)]

\* SELECT * FROM users WHERE username=?
get_user_by_username(d, username) ==
    {u \in DOMAIN d.users : d.users[u].username = username}

\* SELECT currency, amount FROM balances WHERE user_id=?  (a dict)
get_balances(d, user_id) ==
    [c \in {c \in Currencies : <<user_id, c>> \in DOMAIN d.balances} |->
        d.balances[<<user_id, c>>]]

\* bal.get(currency, 0.0)
BalGet(bal, currency) == IF currency \in DOMAIN bal THEN bal[currency] ELSE 0

\* ids of the investments rows of a user, in rowid order
RowIdsOf(d, user_id) == {i \in DOMAIN d.investments : d.investments[i].user_id = user_id}

\* SELECT price_eur FROM prices WHERE asset=?, else the dictionary, else 1.0
get_price(d, dict, asset) ==
    IF asset \in DOMAIN d.prices THEN d.prices[asset]
    ELSE IF asset \in DOMAIN dict THEN dict[asset] ELSE Scale

\* lines 129-130: SELECT id ... WHERE user_id=? AND asset=?; fetchone(): the
\* id of the first matching row, 0 for None
SelectInvestment(d, user_id, asset) ==
    LET ids == {i \in RowIdsOf(d, user_id) : d.investments[i].asset = asset}
    IN IF ids = {} THEN 0 ELSE CHOOSE i \in ids : \A j \in ids : i <= j

\* lines 131-136 on d: UPDATE investments SET shares=? WHERE id=?, or INSERT,
\* then the log row
InvestmentsWritten(d, r, new_shares, user_id, asset, shares) ==
    LogInsert(IF r # 0
              THEN IF r \in DOMAIN d.investments
                   THEN [d EXCEPT !.investments[r].shares = new_shares]
                   ELSE d
              ELSE [d EXCEPT !.investments =
                       Upsert(@, NextRowId(@),
                              [user_id |-> user_id, asset |-> asset, shares |-> shares])],
              "invested")

\* mutant of Rejected: the tolerance mistyped as 1e8
RejectedAtWrongTolerance(new) == new < -1000000000

\* line 118: new < -1e-8
Rejected(new) == new < -Eps

\* mutant of UnitsNeeded: the cost converted at the rate of WRR, whatever the
\* pay currency
UnitsNeededAtWrrRate(shares, price_eur, currency) ==
    (shares * price_eur * Scale) \div CURRENCY_RATES_EUR["WRR"]

\* line 288: shares * price_eur / CURRENCY_RATES_EUR[currency], in hundredths
UnitsNeeded(shares, price_eur, currency) ==
    (shares * price_eur * Scale) \div CURRENCY_RATES_EUR[currency]

\* lines 139-143: SELECT asset, shares ... WHERE user_id=?, made a dict: of the
\* rows of one asset the last one (the table is read in rowid order) stays
get_investments(d, user_id) ==
    LET ids == RowIdsOf(d, user_id)
        last(a) == Max({i \in ids : d.investments[i].asset = a})
    IN [a \in {d.investments[i].asset : i \in ids} |-> d.investments[last(a)].shares]

\* the shares a user holds of an asset: the sum over its rows
RECURSIVE SumShares(_, _)
SumShares(investments, ids) ==
    IF ids = {} THEN 0
    ELSE LET i == CHOOSE i \in ids : TRUE
         IN investments[i].shares + SumShares(investments, ids \ {i})

Position(d, user_id, asset) ==
    SumShares(d.investments, {i \in RowIdsOf(d, user_id) : d.investments[i].asset = asset})

\* everything the database holds of one account
AccountRows(d, user_id) ==
    [bal |-> get_balances(d, user_id),
     inv |-> [i \in RowIdsOf(d, user_id) |-> d.investments[i]],
     usr |-> [u \in DOMAIN d.users \cap {user_id} |-> d.users[u]]]

NoPre == [bal |-> <<>>, pos |-> <<>>]
Snapshot(d, user_id) ==
    [bal |-> get_balances(d, user_id), pos |-> [a \in Assets |-> Position(d, user_id, a)]]

\* DELETE FROM investments WHERE user_id=?
DeleteInvestments(d, user_id) ==
    [d EXCEPT !.investments = Without(@, RowIdsOf(d, user_id))]

\* mutant of WrrUnits: the EUR total credited as it is
WrrUnitsUnconverted(total_eur) == total_eur

\* line 190: total_eur / CURRENCY_RATES_EUR["WRR"], in hundredths
WrrUnits(total_eur) ==
    IF CURRENCY_RATES_EUR["WRR"] > 0 THEN (total_eur * Scale) \div CURRENCY_RATES_EUR["WRR"]
    ELSE 0

\* mutant of CashoutCredited: last_cashout set only when something was paid
CashoutCreditedWhenPaid(d, user_id, wrr_units, day) ==
    LET cur_wrr == IF <<user_id, "WRR">> \in DOMAIN d.balances
                   THEN d.balances[<<user_id, "WRR">>] ELSE 0
        d1 == [d EXCEPT !.balances = Upsert(@, <<user_id, "WRR">>, cur_wrr + wrr_units)]
        d2 == IF user_id \in DOMAIN d1.users /\ wrr_units # 0
              THEN [d1 EXCEPT !.users[user_id].last_cashout = day]
              ELSE d1
    IN LogInsert(d2, "cashed out")

\* lines 192-199 on d: the WRR row, last_cashout, the log row
CashoutCredited(d, user_id, wrr_units, day) ==
    LET cur_wrr == IF <<user_id, "WRR">> \in DOMAIN d.balances
                   THEN d.balances[<<user_id, "WRR">>] ELSE 0
        new_wrr == cur_wrr + wrr_units
        d1 == [d EXCEPT !.balances = Upsert(@, <<user_id, "WRR">>, new_wrr)]
        d2 == IF user_id \in DOMAIN d1.users
              THEN [d1 EXCEPT !.users[user_id].last_cashout = day]
              ELSE d1
    IN LogInsert(d2, "cashed out")

(* --------------------------- thread locals ----------------------------- *)
Idle == [pc |-> "idle", op |-> "none", user_id |-> 0, username |-> "-",
         currency |-> "-", asset |-> "-", amount |-> 0,
         price_eur |-> 0, units_needed |-> 0,
         delta |-> 0, cur_amount |-> 0, new |-> 0, ok |-> FALSE, ret |-> "-",
         rows |-> <<>>, i |-> 0, total_eur |-> 0, wrr_units |-> 0,
         last |-> NoDate, today |-> 0, r |-> 0, win |-> FALSE,
         result |-> "-",
         \* history: the account's rows when the request started; whether another
         \* request has since committed a change to them; whether a price has
         \* since changed
         pre |-> NoPre, dirty |-> FALSE, ticked |-> FALSE]

\* the request is answered: what is left of its locals is the request and the
\* answer
Finished(l, result) ==
    [Idle EXCEPT !.pc = "done", !.op = l.op, !.user_id = l.user_id, !.amount = l.amount,
                 !.result = result, !.ok = l.ok, !.dirty = l.dirty]

(* ------------------------------- bootstrap ----------------------------- *)
\* the three statements of create_user after INSERT INTO users, in one value
SeedBalances(balances, uid) ==
    [k \in DOMAIN balances \cup {<<uid, c>> : c \in Currencies} |->
        IF k[1] = uid THEN StartingBalances[k[2]] ELSE balances[k]]

EmptyDb == [users |-> <<>>, balances |-> <<>>, investments |-> <<>>,
            logs |-> <<>>, prices |-> InitialAssetPrices]

\* create_user run to completion on d (its transaction, then log())
CreatedUser(d, username) ==
    LET uid == NextRowId(d.users)
        d1 == [d EXCEPT !.users = Upsert(@, uid, [username |-> username, last_cashout |-> NoDate]),
                        !.balances = SeedBalances(@, uid)]
    IN LogInsert(d1, "user")

\* init_db, then create_user("alice"), create_user("bob") and log()
bootstrap == LogInsert(CreatedUser(CreatedUser(EmptyDb, "alice"), "bob"), "demo")

\* invest(user_id, asset, shares, currency) run alone on d (lines 287-295)
Invested(d, user_id, asset, shares, currency) ==
    LET units_needed == UnitsNeeded(shares, get_price(d, InitialAssetPrices, asset), currency)
        cur_amount == BalGet(get_balances(d, user_id), currency)
        new == cur_amount - units_needed
        r == SelectInvestment(d, user_id, asset)
        debited == IF Rejected(new) THEN d
                   ELSE LogInsert([d EXCEPT !.balances = Upsert(@, <<user_id, currency>>, new)],
                                  "balance")
    IN IF cur_amount + PreCheckEps < units_needed THEN d
       ELSE InvestmentsWritten(debited, r,
                               IF r = 0 THEN 0 ELSE d.investments[r].shares + shares,
                               user_id, asset, shares)

\* the value in EUR of the rows of a user at the prices of d (lines 182-186)
RECURSIVE TotalEur(_, _)
TotalEur(d, ids) ==
    IF ids = {} THEN 0
    ELSE LET i == CHOOSE i \in ids : TRUE
         IN d.investments[i].shares * get_price(d, InitialAssetPrices, d.investments[i].asset)
            + TotalEur(d, ids \ {i})

\* cashout(user_id) run alone on d on the given day (lines 173-200)
CashedOut(d, user_id, day) ==
    IF user_id \in DOMAIN d.users /\ d.users[user_id].last_cashout = day THEN d
    ELSE CashoutCredited(DeleteInvestments(d, user_id), user_id,
                         WrrUnits(TotalEur(d, RowIdsOf(d, user_id))), day)

\* a run starts on day 1 on the database bootstrap leaves, or on that database
\* after alice (user 1) has cashed out on day 1 and then bought two shares of
\* WRRC with LC
InitialDbs == {bootstrap,
               Invested(CashedOut(bootstrap, 1, 1), 1, "WRRC", 2, "LC")}

Init ==
    /\ db \in InitialDbs
    /\ wdb = db
    /\ owner = NoThread
    /\ ASSET_PRICES = InitialAssetPrices
    /\ today = 1
    /\ loc = [t \in Threads |-> Idle]
    /\ nreq = 0
    /\ crashed = "none"
    /\ ledger = db.balances
    /\ cashouts = [k \in {<<u, db.users[u].last_cashout>> :
                             u \in {u \in DOMAIN db.users : db.users[u].last_cashout # NoDate}}
                     |-> 1]

(* ---------------------------- transactions ----------------------------- *)
\* the database as connection t sees it
View(t) == IF owner = t THEN wdb ELSE db

\* t may write: it holds the write lock or the lock is free
CanWrite(t) == owner \in {t, NoThread}

\* a write statement of t that produces d2 from View(t)
Write(t, d2) == /\ CanWrite(t)
                /\ wdb' = d2
                /\ owner' = t
                /\ db' = db

\* c.commit()
Commit(t) == /\ owner = t
             /\ db' = wdb
             /\ wdb' = wdb
             /\ owner' = NoThread

\* a write statement followed at once by commit (a single-statement transaction)
WriteCommit(t, d2) == /\ owner = NoThread
                      /\ db' = d2
                      /\ wdb' = d2
                      /\ owner' = NoThread

\* a request in progress sees the database change from d to d2 under it
Disturbed(l, d, d2) ==
    IF l.pc \in {"idle", "done"} THEN l
    ELSE LET dirty == l.dirty \/ AccountRows(d, l.user_id) # AccountRows(d2, l.user_id)
         IN [l EXCEPT !.dirty = dirty,
                      !.pre = IF dirty THEN NoPre ELSE @,
                      !.ticked = @ \/ d.prices # d2.prices]

\* thread t goes on with locals l
Goto(t, l) == loc' = [loc EXCEPT ![t] = l]

\* thread t goes on with locals l, having committed d2
GotoCommitted(t, l, d2) ==
    loc' = [x \in Threads |-> IF x = t THEN l ELSE Disturbed(loc[x], db, d2)]

\* the history of the balance rows: key k changes by delta
Booked(k, delta) ==
    Upsert(ledger, k, (IF k \in DOMAIN ledger THEN ledger[k] ELSE 0) + delta)

(* ------------------------------ requests ------------------------------- *)
ThreadOrder == <<"t1", "t2">>

\* t is free, and no free thread comes before it: the pool hands a new request
\* to its first free thread
Free(t) == loc[t].pc \in {"idle", "done"}
Takes(t) == /\ Free(t)
            /\ \A i, j \in 1..Len(ThreadOrder) :
                  (ThreadOrder[j] = t /\ i < j) => ~Free(ThreadOrder[i])

\* a request starts: one more of the run's requests
Started == nreq' = nreq + 1

\* the session's user: get_user_by_username(session["username"])["id"]
SessionUsers == DOMAIN db.users

(* -------------------- change_balance (lines 114-124) ------------------- *)
\* enter change_balance(user_id, currency, delta), to continue at ret
CallChangeBalance(l, user_id, currency, delta, ret) ==
    [l EXCEPT !.pc = "cb_read", !.user_id = user_id, !.currency = currency,
              !.delta = delta, !.ret = ret]

\* mutant of Payout: the stake paid back once
PayoutOfStake(units) == units

\* line 330: units * 2.0
Payout(units) == units * 2

\* what the caller does with change_balance's return value, up to its next
\* statement on shared state: the set of the thread's possible next locals
AfterChangeBalance(l) ==
    CASE l.ret = "adjust" ->
           {Finished(l, IF l.ok THEN "Ok" ELSE "InsufficientFunds")}
      [] l.ret = "invest" ->
           \* line 294: the return value is dropped; line 295 follows
           {[l EXCEPT !.pc = "ai_select"]}
      [] l.ret = "gamble_debit" ->
           \* lines 326-334
           IF ~l.ok THEN {Finished(l, "Debit failed")}
           ELSE {Finished(l, "lost"),
                 [CallChangeBalance(l, l.user_id, l.currency, Payout(l.amount), "gamble_payout")
                     EXCEPT !.win = TRUE]}
      [] l.ret = "gamble_payout" ->
           {Finished(l, "won")}


\* mutant of BalanceWritten: the balance row without the log row
BalanceWrittenUnlogged(d, user_id, currency, new) ==
    [d EXCEPT !.balances = Upsert(@, <<user_id, currency>>, new)]

\* lines 121-122 on d: INSERT OR REPLACE the balance row, INSERT the log row
BalanceWritten(d, user_id, currency, new) ==
    LogInsert([d EXCEPT !.balances = Upsert(@, <<user_id, currency>>, new)], "balance")

\* lines 115-119: read the balance, compute new, reject when new < -1e-8
ChangeBalanceRead(t) ==
    /\ loc[t].pc = "cb_read"
    /\ LET l == loc[t]
           bal == get_balances(View(t), l.user_id)
           cur_amount == BalGet(bal, l.currency)
           new == cur_amount + l.delta
       IN IF Rejected(new)
          THEN \E l2 \in AfterChangeBalance([l EXCEPT !.cur_amount = cur_amount,
                                                        !.new = new, !.ok = FALSE]) :
                  Goto(t, l2)
          ELSE Goto(t, [l EXCEPT !.pc = "cb_write", !.cur_amount = cur_amount, !.new = new])
    /\ UNCHANGED <<db, wdb, owner, ASSET_PRICES, today, nreq, hist>>

\* lines 120-122: INSERT OR REPLACE the balance row, INSERT the log row
ChangeBalanceWrite(t) ==
    /\ loc[t].pc = "cb_write"
    /\ LET l == loc[t]
           d == View(t)
       IN Write(t, BalanceWritten(d, l.user_id, l.currency, l.new))
    /\ Goto(t, [loc[t] EXCEPT !.pc = "cb_commit"])
    /\ UNCHANGED <<ASSET_PRICES, today, nreq, hist>>

\* lines 123-124: commit, return True
ChangeBalanceCommit(t) ==
    /\ loc[t].pc = "cb_commit"
    /\ Commit(t)
    /\ \E l2 \in AfterChangeBalance([loc[t] EXCEPT !.ok = TRUE]) : GotoCommitted(t, l2, wdb)
    /\ ledger' = Booked(<<loc[t].user_id, loc[t].currency>>, loc[t].delta)
    /\ UNCHANGED <<ASSET_PRICES, today, nreq, crashed, cashouts>>

\* a request that is one change_balance call (the engine's adjustBalance)
StartAdjust(t) ==
    /\ Takes(t)
    /\ nreq < MaxReqs
    /\ \E u \in AdjustUsers, c \in AdjustCurrencies, delta \in DeltaSet :
          Goto(t, [CallChangeBalance(Idle, u, c, delta, "adjust") EXCEPT
                      !.op = "adjust", !.amount = delta, !.pre = Snapshot(db, u)])
    /\ Started
    /\ UNCHANGED <<db, wdb, owner, ASSET_PRICES, today, hist>>

(* ------------------------ invest (lines 283-297) ----------------------- *)
\* lines 284-288: the form, get_price and the cost
InvestForm(t) ==
    /\ Takes(t)
    /\ \E u \in SessionUsers, a \in InvestAssets, shares \in ShareSet, c \in PayCurrencies :
          LET price_eur == get_price(db, ASSET_PRICES, a)
          IN Goto(t, [Idle EXCEPT !.pc = "inv_check", !.op = "invest", !.user_id = u,
                                  !.pre = Snapshot(db, u),
                                  !.asset = a, !.amount = shares, !.currency = c,
                                  !.price_eur = price_eur,
                                  !.units_needed = UnitsNeeded(shares, price_eur, c)])
    /\ Started
    /\ UNCHANGED <<db, wdb, owner, ASSET_PRICES, today, hist>>

\* POST /invest
StartInvest(t) == nreq < MaxReqs /\ InvestForm(t)

\* lines 290-294: the funds check, then the call of change_balance
InvestCheck(t) ==
    /\ loc[t].pc = "inv_check"
    /\ LET l == loc[t]
           bal == get_balances(View(t), l.user_id)
       IN IF BalGet(bal, l.currency) + PreCheckEps < l.units_needed
          THEN Goto(t, Finished(l, "Insufficient funds"))
          ELSE Goto(t, CallChangeBalance(l, l.user_id, l.currency, -l.units_needed, "invest"))
    /\ UNCHANGED <<db, wdb, owner, ASSET_PRICES, today, nreq, hist>>

(* -------------------- add_investment (lines 126-137) ------------------- *)
\* lines 129-130: SELECT id, shares ... ; fetchone(): the first matching row, or None (0)
AddInvestmentSelect(t) ==
    /\ loc[t].pc = "ai_select"
    /\ LET l == loc[t]
           d == View(t)
           r == SelectInvestment(d, l.user_id, l.asset)
       IN Goto(t, [l EXCEPT !.pc = "ai_write", !.r = r,
                            !.new = IF r = 0 THEN 0 ELSE d.investments[r].shares + l.amount])
    /\ UNCHANGED <<db, wdb, owner, ASSET_PRICES, today, nreq, hist>>


\* lines 131-136: the row, then the log row
AddInvestmentWrite(t) ==
    /\ loc[t].pc = "ai_write"
    /\ LET l == loc[t]
       IN Write(t, InvestmentsWritten(View(t), l.r, l.new, l.user_id, l.asset, l.amount))
    /\ Goto(t, [loc[t] EXCEPT !.pc = "ai_commit"])
    /\ UNCHANGED <<ASSET_PRICES, today, nreq, hist>>

\* line 137, then lines 296-297 of invest
AddInvestmentCommit(t) ==
    /\ loc[t].pc = "ai_commit"
    /\ Commit(t)
    /\ GotoCommitted(t, Finished(loc[t], "Bought"), wdb)
    /\ UNCHANGED <<ASSET_PRICES, today, nreq, hist>>

(* ------------------------ gamble (lines 319-335) ----------------------- *)
StartGamble(t) ==
    /\ Takes(t)
    /\ nreq < MaxReqs
    /\ \E u \in GambleUsers, c \in GambleCurrencies, units \in UnitSet :
          Goto(t, [Idle EXCEPT !.pc = "g_check", !.op = "gamble", !.user_id = u,
                               !.pre = Snapshot(db, u),
                               !.currency = c, !.amount = units])
    /\ Started
    /\ UNCHANGED <<db, wdb, owner, ASSET_PRICES, today, hist>>

\* lines 322-325
GambleCheck(t) ==
    /\ loc[t].pc = "g_check"
    /\ LET l == loc[t]
           bal == get_balances(View(t), l.user_id)
       IN IF BalGet(bal, l.currency) + PreCheckEps < l.amount
          THEN Goto(t, Finished(l, "Insufficient funds"))
          ELSE Goto(t, CallChangeBalance(l, l.user_id, l.currency, -l.amount, "gamble_debit"))
    /\ UNCHANGED <<db, wdb, owner, ASSET_PRICES, today, nreq, hist>>

(* ------------------------ cashout (lines 171-201) ---------------------- *)
\* lines 307-310: the session's user and the call of cashout
CashoutForm(t) ==
    /\ Takes(t)
    /\ \E u \in SessionUsers :
          Goto(t, [Idle EXCEPT !.pc = "co_last", !.op = "cashout", !.user_id = u,
                               !.pre = Snapshot(db, u)])
    /\ Started
    /\ UNCHANGED <<db, wdb, owner, ASSET_PRICES, today, hist>>

\* POST /cashout
StartCashout(t) == nreq < MaxReqs /\ CashoutForm(t)

\* mutant of CashoutSelectLast: the WHERE clause left out, the first row of
\* users read
CashoutSelectLastOfFirstUser(t) ==
    /\ loc[t].pc = "co_last"
    /\ LET d == View(t)
           last == IF DOMAIN d.users # {} THEN d.users[1].last_cashout ELSE NoDate
       IN Goto(t, [loc[t] EXCEPT !.pc = "co_today", !.last = last])
    /\ UNCHANGED <<db, wdb, owner, ASSET_PRICES, today, nreq, hist>>

\* lines 173-175: SELECT last_cashout FROM users WHERE id=?
CashoutSelectLast(t) ==
    /\ loc[t].pc = "co_last"
    /\ LET l == loc[t]
           d == View(t)
           last == IF l.user_id \in DOMAIN d.users THEN d.users[l.user_id].last_cashout
                   ELSE NoDate
       IN Goto(t, [l EXCEPT !.pc = "co_today", !.last = last])
    /\ UNCHANGED <<db, wdb, owner, ASSET_PRICES, today, nreq, hist>>

\* mutant of CashoutToday: the gate never closes
CashoutTodayUngated(t) ==
    /\ loc[t].pc = "co_today"
    /\ Goto(t, [loc[t] EXCEPT !.pc = "co_rows", !.today = today])
    /\ UNCHANGED <<db, wdb, owner, ASSET_PRICES, today, nreq, hist>>

\* lines 176-178: date.today() and the gate
CashoutToday(t) ==
    /\ loc[t].pc = "co_today"
    /\ LET l == loc[t]
       IN IF l.last = today
          THEN Goto(t, Finished(l, "Already cashed out today"))
          ELSE Goto(t, [l EXCEPT !.pc = "co_rows", !.today = today])
    /\ UNCHANGED <<db, wdb, owner, ASSET_PRICES, today, nreq, hist>>

\* the rows of a user as a sequence in rowid order
RECURSIVE RowSeq(_, _)
RowSeq(investments, ids) ==
    IF ids = {} THEN <<>>
    ELSE LET i == CHOOSE i \in ids : \A j \in ids : i <= j
         IN <<[asset |-> investments[i].asset, shares |-> investments[i].shares]>>
            \o RowSeq(investments, ids \ {i})

\* lines 180-182: SELECT asset, shares FROM investments WHERE user_id=?
CashoutSelectRows(t) ==
    /\ loc[t].pc = "co_rows"
    /\ LET l == loc[t]
           d == View(t)
           rows == RowSeq(d.investments, RowIdsOf(d, l.user_id))
       IN Goto(t, [l EXCEPT !.pc = IF rows = <<>> THEN "co_delete" ELSE "co_price",
                            !.rows = rows, !.i = 1, !.total_eur = 0])
    /\ UNCHANGED <<db, wdb, owner, ASSET_PRICES, today, nreq, hist>>

\* lines 183-186: one turn of the loop: get_price and the sum
CashoutPrice(t) ==
    /\ loc[t].pc = "co_price"
    /\ LET l == loc[t]
           row == l.rows[l.i]
           price == get_price(db, ASSET_PRICES, row.asset)
       IN Goto(t, [l EXCEPT !.pc = IF l.i = Len(l.rows) THEN "co_delete" ELSE "co_price",
                            !.i = l.i + 1,
                            !.total_eur = l.total_eur + row.shares * price])
    /\ UNCHANGED <<db, wdb, owner, ASSET_PRICES, today, nreq, hist>>

\* mutant of CashoutDelete: the rows deleted by clear_investments (lines
\* 145-148), which commits on its own connection
CashoutDeleteCommitted(t) ==
    /\ loc[t].pc = "co_delete"
    /\ WriteCommit(t, DeleteInvestments(db, loc[t].user_id))
    /\ GotoCommitted(t, [loc[t] EXCEPT !.pc = "co_credit"],
                     DeleteInvestments(db, loc[t].user_id))
    /\ UNCHANGED <<ASSET_PRICES, today, nreq, hist>>

\* line 188: the DELETE, which opens the transaction
CashoutDelete(t) ==
    /\ loc[t].pc = "co_delete"
    /\ Write(t, DeleteInvestments(View(t), loc[t].user_id))
    /\ Goto(t, [loc[t] EXCEPT !.pc = "co_credit"])
    /\ UNCHANGED <<ASSET_PRICES, today, nreq, hist>>

\* lines 190-199
CashoutCredit(t) ==
    /\ loc[t].pc = "co_credit"
    /\ LET l == loc[t]
           wrr_units == WrrUnits(l.total_eur)
       IN /\ Write(t, CashoutCredited(View(t), l.user_id, wrr_units, l.today))
          /\ Goto(t, [l EXCEPT !.pc = "co_commit", !.wrr_units = wrr_units])
    /\ UNCHANGED <<ASSET_PRICES, today, nreq, hist>>

\* lines 200-201
CashoutCommit(t) ==
    /\ loc[t].pc = "co_commit"
    /\ Commit(t)
    /\ GotoCommitted(t, Finished(loc[t], "Cashed out"), wdb)
    /\ ledger' = Booked(<<loc[t].user_id, "WRR">>, loc[t].wrr_units)
    /\ cashouts' = LET k == <<loc[t].user_id, loc[t].today>>
                   IN Upsert(cashouts, k, (IF k \in DOMAIN cashouts THEN cashouts[k] ELSE 0) + 1)
    /\ UNCHANGED <<ASSET_PRICES, today, nreq, crashed>>

(* ---------------------- create_user (lines 86-101) --------------------- *)
\* /register (lines 224-229)
StartRegister(t) ==
    /\ Takes(t)
    /\ nreq < MaxReqs
    /\ \E u \in Usernames :
          Goto(t, [Idle EXCEPT !.pc = "cu_insert", !.op = "register", !.username = u])
    /\ Started
    /\ UNCHANGED <<db, wdb, owner, ASSET_PRICES, today, hist>>

\* mutant of CreateUserInsert: the users row committed on its own, before the
\* balance rows are written
CreateUserInsertCommitted(t) ==
    /\ loc[t].pc = "cu_insert"
    /\ LET l == loc[t]
           uid == NextRowId(db.users)
           d2 == [db EXCEPT !.users =
                     Upsert(@, uid, [username |-> l.username, last_cashout |-> NoDate])]
       IN IF get_user_by_username(db, l.username) # {}
          THEN /\ Goto(t, Finished(l, "Username exists"))
               /\ UNCHANGED <<db, wdb, owner>>
          ELSE /\ WriteCommit(t, d2)
               /\ GotoCommitted(t, [l EXCEPT !.pc = "cu_seed", !.user_id = uid], d2)
    /\ UNCHANGED <<ASSET_PRICES, today, nreq, hist>>

\* line 89: INSERT INTO users; username is UNIQUE (lines 100-101 on IntegrityError)
CreateUserInsert(t) ==
    /\ loc[t].pc = "cu_insert"
    /\ CanWrite(t)
    /\ LET l == loc[t]
           d == View(t)
           uid == NextRowId(d.users)
       IN IF get_user_by_username(d, l.username) # {}
          THEN /\ Goto(t, Finished(l, "Username exists"))
               /\ UNCHANGED <<db, wdb, owner>>
          ELSE /\ Write(t, [d EXCEPT !.users =
                               Upsert(@, uid, [username |-> l.username, last_cashout |-> NoDate])])
               /\ Goto(t, [l EXCEPT !.pc = "cu_seed", !.user_id = uid])
    /\ UNCHANGED <<ASSET_PRICES, today, nreq, hist>>

\* lines 91-96: the rows with 0.0, then the starting balances
CreateUserSeed(t) ==
    /\ loc[t].pc = "cu_seed"
    /\ LET d == View(t)
       IN Write(t, [d EXCEPT !.balances = SeedBalances(@, loc[t].user_id)])
    /\ Goto(t, [loc[t] EXCEPT !.pc = "cu_commit"])
    /\ UNCHANGED <<ASSET_PRICES, today, nreq, hist>>

\* line 97
CreateUserCommit(t) ==
    /\ loc[t].pc = "cu_commit"
    /\ Commit(t)
    /\ GotoCommitted(t, [loc[t] EXCEPT !.pc = "cu_log"], wdb)
    /\ ledger' = [k \in DOMAIN ledger \cup {<<loc[t].user_id, c>> : c \in Currencies} |->
                     IF k[1] = loc[t].user_id THEN wdb.balances[k] ELSE ledger[k]]
    /\ UNCHANGED <<ASSET_PRICES, today, nreq, crashed, cashouts>>

\* lines 98-99: log() on its own connection
CreateUserLog(t) ==
    /\ loc[t].pc = "cu_log"
    /\ WriteCommit(t, LogInsert(db, "user"))
    /\ GotoCommitted(t, Finished(loc[t], "Account created"), LogInsert(db, "user"))
    /\ UNCHANGED <<ASSET_PRICES, today, nreq, hist>>

(* ----------------------- small_tick (lines 162-168) -------------------- *)
\* /dashboard (line 261)
StartDashboard(t) ==
    /\ Takes(t)
    /\ nreq < MaxReqs
    /\ Goto(t, [Idle EXCEPT !.pc = "tk_walk", !.op = "dashboard", !.i = 1])
    /\ Started
    /\ UNCHANGED <<db, wdb, owner, ASSET_PRICES, today, hist>>

\* line 166: max(0.01, round(price * (1 + pct), 4)), pct in percent
Walked(price, pct) ==
    LET p == (price * (100 + pct) + 50) \div 100
    IN IF p < MinPrice THEN MinPrice ELSE p

\* lines 165-166 for the asset at position i
TickWalk(t) ==
    /\ loc[t].pc = "tk_walk"
    /\ \E pct \in PctSet :
          ASSET_PRICES' = [ASSET_PRICES EXCEPT ![AssetOrder[loc[t].i]] = Walked(@, pct)]
    /\ Goto(t, [loc[t] EXCEPT !.pc = "tk_update"])
    /\ UNCHANGED <<db, wdb, owner, today, nreq, hist>>

\* line 167: update_price(a, ASSET_PRICES[a]) (lines 156-159)
TickUpdate(t) ==
    /\ loc[t].pc = "tk_update"
    /\ LET a == AssetOrder[loc[t].i]
           d2 == [db EXCEPT !.prices = Upsert(@, a, ASSET_PRICES[a])]
       IN /\ WriteCommit(t, d2)
          /\ GotoCommitted(t, [loc[t] EXCEPT
                                 !.pc = IF loc[t].i = Len(AssetOrder) THEN "tk_log" ELSE "tk_walk",
                                 !.i = loc[t].i + 1], d2)
    /\ UNCHANGED <<ASSET_PRICES, today, nreq, hist>>

\* line 168
TickLog(t) ==
    /\ loc[t].pc = "tk_log"
    /\ WriteCommit(t, LogInsert(db, "tick"))
    /\ GotoCommitted(t, Finished(loc[t], "dashboard"), LogInsert(db, "tick"))
    /\ UNCHANGED <<ASSET_PRICES, today, nreq, hist>>

(* ----------------------------- environment ----------------------------- *)
\* midnight
NextDay ==
    /\ today + 1 \in Days
    /\ today' = today + 1
    /\ UNCHANGED <<db, wdb, owner, ASSET_PRICES, loc, nreq, hist>>

\* the process dies and is started again: every request in progress is gone,
\* an open transaction is rolled back, the module's globals are as at import
Crash ==
    /\ \E t \in Threads : ~Free(t)
    /\ crashed' = IF owner = NoThread THEN "no transaction" ELSE loc[owner].pc
    /\ loc' = [t \in Threads |-> Idle]
    /\ wdb' = db
    /\ owner' = NoThread
    /\ ASSET_PRICES' = InitialAssetPrices
    /\ UNCHANGED <<db, today, nreq, ledger, cashouts>>

Next ==
    \/ \E t \in Threads : StartAdjust(t)
    \/ \E t \in Threads : ChangeBalanceRead(t)
    \/ \E t \in Threads : ChangeBalanceWrite(t)
    \/ \E t \in Threads : ChangeBalanceCommit(t)
    \/ \E t \in Threads : StartInvest(t)
    \/ \E t \in Threads : InvestCheck(t)
    \/ \E t \in Threads : AddInvestmentSelect(t)
    \/ \E t \in Threads : AddInvestmentWrite(t)
    \/ \E t \in Threads : AddInvestmentCommit(t)
    \/ \E t \in Threads : StartGamble(t)
    \/ \E t \in Threads : GambleCheck(t)
    \/ \E t \in Threads : StartCashout(t)
    \/ \E t \in Threads : CashoutSelectLast(t)
    \/ \E t \in Threads : CashoutToday(t)
    \/ \E t \in Threads : CashoutSelectRows(t)
    \/ \E t \in Threads : CashoutPrice(t)
    \/ \E t \in Threads : CashoutDelete(t)
    \/ \E t \in Threads : CashoutCredit(t)
    \/ \E t \in Threads : CashoutCommit(t)
    \/ \E t \in Threads : StartRegister(t)
    \/ \E t \in Threads : CreateUserInsert(t)
    \/ \E t \in Threads : CreateUserSeed(t)
    \/ \E t \in Threads : CreateUserCommit(t)
    \/ \E t \in Threads : CreateUserLog(t)
    \/ \E t \in Threads : StartDashboard(t)
    \/ \E t \in Threads : TickWalk(t)
    \/ \E t \in Threads : TickUpdate(t)
    \/ \E t \in Threads : TickLog(t)
    \/ NextDay
    \/ Crash

Spec == Init /\ [][Next]_vars

(* ------------------------- the trading requests alone ------------------ *)
\* POST /invest and POST /cashout, MaxTrades of them in a run
TradeInvest(t) == nreq < MaxTrades /\ InvestForm(t)
TradeCashout(t) == nreq < MaxTrades /\ CashoutForm(t)

\* the runs of the application in which every request is an invest or a
\* cashout and the process does not die
TradeNext ==
    \/ \E t \in Threads : TradeInvest(t)
    \/ \E t \in Threads : InvestCheck(t)
    \/ \E t \in Threads : ChangeBalanceRead(t)
    \/ \E t \in Threads : ChangeBalanceWrite(t)
    \/ \E t \in Threads : ChangeBalanceCommit(t)
    \/ \E t \in Threads : AddInvestmentSelect(t)
    \/ \E t \in Threads : AddInvestmentWrite(t)
    \/ \E t \in Threads : AddInvestmentCommit(t)
    \/ \E t \in Threads : TradeCashout(t)
    \/ \E t \in Threads : CashoutSelectLast(t)
    \/ \E t \in Threads : CashoutToday(t)
    \/ \E t \in Threads : CashoutSelectRows(t)
    \/ \E t \in Threads : CashoutPrice(t)
    \/ \E t \in Threads : CashoutDelete(t)
    \/ \E t \in Threads : CashoutCredit(t)
    \/ \E t \in Threads : CashoutCommit(t)
    \/ NextDay

TradeSpec == Init /\ [][TradeNext]_vars

(* ------------------------------ the claims ----------------------------- *)
\* thread t takes a step of its request (a crash takes it to "idle")
Steps(t) == loc'[t].pc # loc[t].pc /\ loc'[t].pc # "idle"

InChangeBalance(t, k) ==
    /\ loc[t].pc \in {"cb_read", "cb_write", "cb_commit"}
    /\ <<loc[t].user_id, loc[t].currency>> = k

\* C1: every stored balance of every account and currency is >= -epsilon in
\* every reachable state.
C1_BalancesNonNegative ==
    \A k \in DOMAIN db.balances : db.balances[k] >= -Eps

\* C2: no update of change_balance is lost: once every change_balance call on a
\* key has returned, the stored balance is the initial balance plus the deltas
\* of the calls that returned success (and the other committed credits).
C2_NoLostUpdate ==
    \A k \in DOMAIN db.balances :
        (\A t \in Threads : ~InChangeBalance(t, k)) => db.balances[k] = ledger[k]

\* C3: for every account and date at most one cashout succeeds and credits.
C3_OncePerDay ==
    \A k \in DOMAIN cashouts : cashouts[k] <= 1

\* C4: when the debit inside invest has failed, the invest creates or
\* increases no position.
C4_FailedDebitNoPosition ==
    [][\A t \in Threads :
          (loc[t].op = "invest" /\ loc[t].pc = "ai_commit" /\ ~loc[t].ok)
              => db'.investments = db.investments]_vars

\* C5: every change a cashout call makes to the durable database is the whole
\* of it: the account's positions deleted, the WRR balance credited with the
\* valuation and last_cashout set to the call's date, in one step; a crash
\* inside cashout leaves the durable database as it was.
C5_CashoutAtomic ==
    [][\A t \in Threads :
          (loc[t].op = "cashout" /\ loc'[t].pc # loc[t].pc /\ db' # db)
              => LET u == loc[t].user_id
                 IN /\ RowIdsOf(db', u) = {}
                    /\ db'.users[u].last_cashout = loc[t].today
                    /\ db'.balances[<<u, "WRR">>]
                          = db.balances[<<u, "WRR">>] + loc[t].wrr_units]_vars

\* a crash found the cashout transaction of alice with its DELETE and its
\* credit written and not committed; her position and her date are as before
C5_Witness ==
    /\ crashed = "co_commit"
    /\ RowIdsOf(db, 1) # {}
    /\ db.users[1].last_cashout # today

C7_SecondCashoutNoEffect ==
    [][\A t \in Threads :
          /\ (loc[t].pc \in {"co_last", "co_today"} /\ Steps(t))
                 => (db' = db /\ wdb' = wdb /\ owner' = owner)
          /\ (loc[t].pc = "co_today" /\ loc[t].last = today /\ Steps(t))
                 => (loc'[t].pc = "done" /\ loc'[t].result = "Already cashed out today")]_vars

\* a cashout was refused while the account held a position
C7_Witness ==
    \E t \in Threads :
        /\ loc[t].pc = "done" /\ loc[t].op = "cashout"
        /\ loc[t].result = "Already cashed out today"
        /\ RowIdsOf(db, loc[t].user_id) # {}
        /\ db.users[loc[t].user_id].last_cashout = today

C9_RejectedDebit ==
    [][\A t \in Threads :
          (/\ loc[t].pc = "cb_read" /\ Steps(t)
           /\ BalGet(get_balances(db, loc[t].user_id), loc[t].currency) + loc[t].delta < -Eps)
              => /\ ~loc'[t].ok
                 /\ loc'[t].pc \notin {"cb_write", "cb_commit"}
                 /\ loc[t].op = "adjust"
                       => (loc'[t].pc = "done" /\ loc'[t].result = "InsufficientFunds")
                 /\ db' = db /\ wdb' = wdb /\ owner' = owner]_vars

\* the debit of 1000.0 WRR from alice's 10.0 WRR was refused
C9_Witness ==
    \E t \in Threads :
        /\ loc[t].pc = "done" /\ loc[t].op = "adjust"
        /\ loc[t].result = "InsufficientFunds"
        /\ db.balances[<<1, "WRR">>] = 1000
        /\ db.logs = bootstrap.logs

\* C10: an invest with shares <= 0 is rejected without side effects: it writes
\* no balance and no position.
C10_NonPositiveSharesRejected ==
    [][\A t \in Threads :
          (loc[t].op = "invest" /\ loc[t].amount <= 0 /\ loc'[t].pc # loc[t].pc)
              => (db'.balances = db.balances /\ db'.investments = db.investments)]_vars

\* C11: a wager with stake <= 0 is rejected and changes no balance, whatever
\* the random outcome.
C11_NonPositiveStakeRejected ==
    [][\A t \in Threads :
          (loc[t].op = "gamble" /\ loc[t].amount <= 0 /\ loc'[t].pc # loc[t].pc)
              => db'.balances = db.balances]_vars

\* C12: a wager with stake > 0 under which no other request changed the
\* account: when the balance covers the stake, the balance afterwards is the
\* balance before minus the stake on a loss and minus the stake plus twice the
\* stake on a win; when it does not, the call fails and the balance is as
\* before.  No other balance of the account changes.
C12_WagerArithmetic ==
    [][\A t \in Threads :
          (loc[t].op = "gamble" /\ loc[t].amount > 0 /\ loc'[t].pc = "done"
             /\ loc[t].pc # "done" /\ ~loc[t].dirty)
              => LET l == loc[t]
                     stake == l.amount
                     before == l.pre.bal
                     after == get_balances(db', l.user_id)
                     covered == before[l.currency] >= stake
                     result == loc'[t].result
                 IN /\ DOMAIN after = DOMAIN before
                    /\ \A c \in DOMAIN after \ {l.currency} : after[c] = before[c]
                    /\ covered => result \in {"lost", "won"}
                    /\ ~covered => result = "Insufficient funds"
                    /\ result = "lost" => after[l.currency] = before[l.currency] - stake
                    /\ result = "won"
                          => after[l.currency] = before[l.currency] - stake + 2 * stake
                    /\ result \notin {"lost", "won"}
                          => after[l.currency] = before[l.currency]]_vars

\* an undisturbed wager of alice's 10.0 WRR was won: she holds 20.0 WRR
C12_Witness ==
    \E t \in Threads :
        /\ loc[t].pc = "done" /\ loc[t].op = "gamble" /\ loc[t].result = "won"
        /\ ~loc[t].dirty
        /\ db.balances[<<loc[t].user_id, "WRR">>] = 2 * StartingBalances["WRR"]

\* C13: create_user with a registered name fails and changes nothing;
\* create_user with a new name makes the users row and the three balance rows
\* WRR 10.0, LC 25.0, KP 50.0 durable in one step, the rows of the other
\* accounts staying as they are, so that every durable account has its three
\* balance rows.
C13_CreateAccount ==
    [][/\ \A t \in Threads :
             (/\ loc[t].op = "register" /\ loc[t].pc = "cu_insert" /\ Steps(t)
              /\ get_user_by_username(db, loc[t].username) # {})
                 => /\ loc'[t].pc = "done" /\ loc'[t].result = "Username exists"
                    /\ db' = db /\ wdb' = wdb /\ owner' = owner
       /\ \A u \in DOMAIN db'.users \ DOMAIN db.users :
             /\ \A c \in Currencies :
                   /\ <<u, c>> \in DOMAIN db'.balances
                   /\ db'.balances[<<u, c>>] = StartingBalances[c]
             /\ \A k \in DOMAIN db.balances :
                   k \in DOMAIN db'.balances /\ db'.balances[k] = db.balances[k]
             /\ \A v \in DOMAIN db.users : db'.users[v] = db.users[v]
       /\ \A u \in DOMAIN db'.users, c \in Currencies : <<u, c>> \in DOMAIN db'.balances]_vars

\* carol is registered with her starting balances, and a second registration
\* of the name was refused
C13_Witness ==
    \E t \in Threads, u \in DOMAIN db.users :
        /\ loc[t].pc = "done" /\ loc[t].op = "register"
        /\ loc[t].result = "Username exists"
        /\ db.users[u].username = "carol"
        /\ get_balances(db, u) = StartingBalances

\* C14: a step of an adjustBalance, invest, cashout or wager call of one
\* account leaves the balances, the positions and last_cashout of every other
\* account as they are.
C14_NoCrossAccountEffect ==
    [][\A t \in Threads :
          (loc[t].op \in {"adjust", "invest", "cashout", "gamble"} /\ Steps(t))
              => \A u \in DOMAIN db.users \ {loc[t].user_id} :
                    AccountRows(db', u) = AccountRows(db, u)]_vars

\* C15: the commit of a change_balance call makes the new balance and exactly
\* one more log row durable together; a change_balance call that is rejected
\* writes nothing; and every step leaves the log rows there are as they are:
\* the log only grows.
C15_AuditAppendOnly ==
    [][/\ Len(db'.logs) >= Len(db.logs)
       /\ SubSeq(db'.logs, 1, Len(db.logs)) = db.logs
       /\ \A t \in Threads :
             /\ (loc[t].pc = "cb_commit" /\ Steps(t))
                   => /\ db'.logs = Append(db.logs, "balance")
                      /\ db'.balances[<<loc[t].user_id, loc[t].currency>>] = loc[t].new
             /\ (loc[t].pc \in {"cb_read", "cb_write"} /\ Steps(t)) => db' = db
             /\ (loc[t].pc = "cb_read" /\ Steps(t) /\ loc'[t].pc # "cb_write")
                   => /\ ~loc'[t].ok
                      /\ wdb' = wdb /\ owner' = owner]_vars

\* a credit of 3.0 WRR to alice has returned success: the balance is 13.0 and
\* the log has one more row
C15_Witness ==
    \E t \in Threads :
        /\ loc[t].pc = "done" /\ loc[t].op = "adjust" /\ loc[t].result = "Ok"
        /\ db.balances[<<1, "WRR">>] = StartingBalances["WRR"] + 300
        /\ db.logs = Append(bootstrap.logs, "balance")

\* C16: positions accumulate additively: the commit of a successful invest of
\* shares > 0, in a run of successful invests of shares > 0, leaves one
\* investments row for the account and the asset, and get_investments reports
\* for the asset what it reported before plus the shares of the invest.
C16_PositionsAdditive ==
    [][\A t \in Threads :
          (/\ loc[t].op = "invest" /\ loc[t].pc = "ai_commit" /\ Steps(t)
           /\ loc[t].ok /\ loc[t].amount > 0
           /\ \A x \in Threads : loc[x].op = "invest" /\ loc[x].ok /\ loc[x].amount > 0)
              => LET u == loc[t].user_id
                     a == loc[t].asset
                     before == get_investments(db, u)
                     after == get_investments(db', u)
                 IN /\ Cardinality({i \in RowIdsOf(db', u) : db'.investments[i].asset = a}) = 1
                    /\ a \in DOMAIN after
                    /\ after[a] = (IF a \in DOMAIN before THEN before[a] ELSE 0)
                                      + loc[t].amount]_vars

\* C17: last_cashout of an account is changed by the commit of a successful
\* cashout of that account and by nothing else; the gate of a cashout call
\* compares the stored last_cashout of the account with the current date, and
\* a call that finds them different is not refused and ends in success.
C17_GateFromStoredDate ==
    [][/\ \A u \in DOMAIN db.users :
             db'.users[u].last_cashout # db.users[u].last_cashout
                => \E t \in Threads :
                      /\ loc[t].op = "cashout" /\ loc[t].user_id = u
                      /\ loc[t].pc = "co_commit"
                      /\ loc'[t].pc = "done" /\ loc'[t].result = "Cashed out"
                      /\ db'.users[u].last_cashout = loc[t].today
       /\ \A t \in Threads :
             /\ (loc[t].pc = "co_last" /\ Steps(t) /\ loc[t].user_id \in DOMAIN db.users)
                   => loc'[t].last = db.users[loc[t].user_id].last_cashout
             /\ (loc[t].pc = "co_today" /\ Steps(t) /\ loc[t].last # today)
                   => loc'[t].pc = "co_rows" /\ loc'[t].today = today
             /\ (loc[t].op = "cashout" /\ loc'[t].pc = "done"
                    /\ loc[t].pc \notin {"co_today", "done"})
                   => loc[t].pc = "co_commit" /\ loc'[t].result = "Cashed out"]_vars

\* alice, who cashed out on day 1, has cashed out again on day 2
C17_Witness ==
    \E t \in Threads :
        /\ loc[t].pc = "done" /\ loc[t].op = "cashout" /\ loc[t].result = "Cashed out"
        /\ loc[t].user_id = 1
        /\ <<1, 1>> \in DOMAIN cashouts
        /\ today = 2
        /\ db.users[1].last_cashout = 2

\* C18: a cashout that runs with an invest of shares > 0 of the same account
\* deletes the rows it has valued and no others: at its commit, the rows of
\* the account that the DELETE removes are the rows, with the shares, that the
\* call read and summed for the credit.
C18_CreditsWhatItDeletes ==
    [][\A t \in Threads :
          (/\ loc[t].op = "cashout" /\ loc[t].pc = "co_commit" /\ Steps(t)
           /\ \A x \in Threads \ {t} :
                 /\ loc[x].op = "invest" /\ loc[x].amount > 0
                 /\ loc[x].user_id = loc[t].user_id)
              => RowSeq(db.investments, RowIdsOf(db, loc[t].user_id)) = loc[t].rows]_vars

\* C19: a cashout of an account whose gate is open and for which the call
\* found no positions succeeds, leaves the WRR balance and the other balances
\* of the account as they are, and sets last_cashout to the date of the call;
\* a later cashout call that reads this date on the same day is refused,
\* whatever the account has bought since.
C19_EmptyCashout ==
    [][\A t \in Threads :
          /\ (/\ loc[t].op = "cashout" /\ loc[t].pc = "co_commit" /\ Steps(t)
              /\ loc[t].rows = <<>> /\ loc[t].user_id \in DOMAIN db.users)
                 => LET u == loc[t].user_id
                    IN /\ loc'[t].pc = "done" /\ loc'[t].result = "Cashed out"
                       /\ get_balances(db', u) = get_balances(db, u)
                       /\ db'.users[u].last_cashout = loc[t].today
          /\ (/\ loc[t].op = "cashout" /\ loc[t].pc = "co_today" /\ Steps(t)
              /\ loc[t].last = today /\ RowIdsOf(db, loc[t].user_id) # {})
                 => /\ loc'[t].pc = "done" /\ loc'[t].result = "Already cashed out today"
                    /\ db' = db]_vars

\* bob, who holds nothing, has cashed out: his balances are the starting
\* balances and his last_cashout is today
C19_Witness ==
    \E t \in Threads :
        /\ loc[t].pc = "done" /\ loc[t].op = "cashout" /\ loc[t].result = "Cashed out"
        /\ loc[t].user_id = 2
        /\ get_balances(db, 2) = StartingBalances
        /\ RowIdsOf(db, 2) = {}
        /\ db.users[2].last_cashout = today

\* C20: a change_balance call with a user_id that has no users row reports
\* failure and writes nothing: no balance row, no position, no log row.
C20_UnknownAccountFailsClosed ==
    [][\A t \in Threads :
          (loc[t].op = "adjust" /\ loc[t].user_id \notin DOMAIN db.users /\ Steps(t))
              => /\ db' = db
                 /\ loc'[t].pc = "done" => loc'[t].result # "Ok"]_vars

====
